---- MODULE Spec2Model ----
(***************************************************************************)
(* Model of load() in src/load_data.py (waveform_fetch).                   *)
(*                                                                         *)
(* load() is one synchronous pipeline: availability gate, fetch (with one  *)
(* wildcard fallback), empty check, merge, minimum-window check, detrend + *)
(* bandpass, trim/pad, timestamp series, per-station normalisation.        *)
(*                                                                         *)
(* Times are integer ticks.  A sample is tracked by its kind: "num" (a     *)
(* finite number) or "nan" (numpy.nan); magnitudes are abstracted.         *)
(* Optional Python values are sequences: None is << >>, a present value v  *)
(* is <<v>>.  Strings that are sliced (channel) are sequences of chars.    *)
(* The caller runs load() twice with the same argument objects against the *)
(* same server, configuration and station table.                           *)
(***************************************************************************)
EXTENDS Integers, Sequences, FiniteSets, TLC

\* ---------------------------------------------------------------- bounds
MaxTime == 2          \* caller and availability times range over 0..MaxTime
MaxPts == 2           \* samples in one trace segment sent by the server
SamplePeriod == 3     \* ticks between two samples of a trace (stats.delta)

Pads == {0, 1}                 \* values of CONFIG['SPECTROGRAM']['padding']
Offsets == {-1, 0, 1, 2}       \* first sample of a segment, relative to the requested start
Gaps == {0, 1}                 \* missing samples between two segments of one channel

None == << >>
Some(v) == <<v>>

WindowSizes == {None, Some(2)} \* CONFIG['SPECTROGRAM']['WindowSize'], fallback None
EHZ == <<"E", "H", "Z">>
Channels == {None, Some(EHZ)}
Stations == {None, Some("XYZ")}
StationTable == {"XYZ"}        \* keys of the stations mapping

VARIABLES
    params,     \* the caller's arguments (kwargs, line 33)
    config,     \* CONFIG values read at lines 44-45
    avail,      \* what wclient.get_availability returns (line 54)
    served,     \* waveform requests the server has answered, with its answers
    call,       \* 1 or 2: which of the caller's two calls is running
    first,      \* outcome of the first call, once it is over
    pc,         \* position inside load()
    args,       \* the local dict args
    stream,     \* the local stream
    fetched,    \* the stream as get_waveforms returned it (history)
    requests,   \* arguments of every get_waveforms call of this call
    trimwin,    \* the window handed to stream.trim (history)
    log,        \* logging records emitted by this call
    ran,        \* processing steps run on the stream by this call
    result,     \* the returned tuple
    raised      \* exception that left load(), "none" if none

vars == <<params, config, avail, served, call, first, pc, args, stream,
          fetched, requests, trimwin, log, ran, result, raised>>

\* ------------------------------------------------------------ pure parts

Times == 0..MaxTime

\* one tuple of get_availability: (network, station, location, channel, from, to)
AvailRecord(f, t) == <<"AV", "XYZ", "--", "EHZ", f, t>>

\* availability lists of the server: a record is a window, from <= to; only
\* the first record is read by load()
AvailLists ==
    {<< >>}
    \cup {<<AvailRecord(w[1], w[2])>> : w \in {x \in Times \X Times : x[1] <= x[2]}}
    \cup {<<AvailRecord(0, 0), AvailRecord(0, MaxTime)>>}

\* variant: the timestamps component is left present
SentinelHalf == [stream |-> None, times |-> Some(<< >>)]

\* (None, None)
Sentinel == [stream |-> None, times |-> None]

\* variant: the boundary instants count as no overlap
GateFailsInclusive(av, s, e) ==
    \/ Len(av) = 0
    \/ av[1][6] <= s
    \/ av[1][5] >= e

\* lines 56-63: IndexError on an empty list, AvailabilityError on no overlap
GateFails(av, s, e) ==
    \/ Len(av) = 0
    \/ av[1][6] < s
    \/ av[1][5] > e

\* lines 49-52: the availability query drops the times and every None
AvailArgs(p) ==
    [network |-> p.network, station |-> p.station,
     location |-> p.location, channel |-> p.channel]

\* line 75: channel[:-1] + '*'
Wildcard(c) == SubSeq(c, 1, Len(c) - 1) \o <<"*">>

\* line 74: truthiness of channel
ChannelGiven(c) == c # None /\ Len(c[1]) > 0

\* lines 68-75: the fetch arguments
FetchArgs(p, pad) ==
    [network |-> p.network, station |-> p.station, location |-> p.location,
     channel |-> IF ChannelGiven(p.channel) THEN Some(Wildcard(p.channel[1]))
                 ELSE p.channel,
     starttime |-> p.starttime - pad,
     endtime |-> p.endtime + pad]

\* variant: the fallback keeps the wildcarded channel
RetryChannelWild(p) ==
    IF p.channel # None /\ Len(p.channel[1]) > 0
    THEN Some(SubSeq(p.channel[1], 1, Len(p.channel[1]) - 1) \o <<"*">>)
    ELSE p.channel

\* line 85: the fallback uses the caller's channel
RetryChannel(p) == p.channel

\* variant: the trim window is padded a second time
TrimBoundsPaddedTwice(p, pad) == <<p.starttime - 2 * pad, p.endtime + 2 * pad>>

\* line 115: the window handed to stream.trim
TrimBounds(p, pad) == <<p.starttime - pad, p.endtime + pad>>

\* round half away from zero of n/d, d > 0 (obspy's nearest-sample rounding)
RoundAway(n, d) ==
    IF n >= 0 THEN (2 * n + d) \div (2 * d)
    ELSE 0 - ((2 * (0 - n) + d) \div (2 * d))

Max(a, b) == IF a >= b THEN a ELSE b

Npts(tr) == Len(tr.data)
EndTime(tr) == tr.start + (Npts(tr) - 1) * SamplePeriod
SampleTime(tr, i) == tr.start + (i - 1) * SamplePeriod

AllNum(n) == [i \in 1..n |-> "num"]

\* variant: the empty check never fires
IsEmptyNever(s) == Len(s) < 0

\* line 91: stream.count() == 0
IsEmpty(s) == Len(s) = 0

\* lines 100-101: merge(method=1, fill_value='latest'): segments of one
\* channel become one trace, the gap filled with the latest value
Merge(s) ==
    IF Len(s) = 2 /\ s[1].id = s[2].id
    THEN <<[id |-> s[1].id, start |-> s[1].start,
            data |-> AllNum((Max(EndTime(s[1]), EndTime(s[2])) - s[1].start)
                            \div SamplePeriod + 1)]>>
    ELSE s

\* variant: the threshold is off by one
TooShortOffByOne(n, ws) == ws # None /\ n < ws[1] - 1

\* line 103: window_size is not None and stream[0].count() < window_size
TooShort(n, ws) == ws # None /\ n < ws[1]

\* lines 108-112: detrend and zero-phase bandpass keep a finite trace finite;
\* one nan would spread over the whole trace
FilterTrace(tr) ==
    [tr EXCEPT !.data = IF \E i \in 1..Npts(tr) : tr.data[i] = "nan"
                        THEN [i \in 1..Npts(tr) |-> "nan"]
                        ELSE tr.data]

\* line 115, Stream.trim: the window is first moved to the sampling grid of
\* the first trace
GridWindow(tr0, w) ==
    <<tr0.start + RoundAway(w[1] - tr0.start, SamplePeriod) * SamplePeriod,
      EndTime(tr0) + RoundAway(w[2] - EndTime(tr0), SamplePeriod) * SamplePeriod>>

\* line 115, Trace.trim(pad=True, fill_value=nan): cut or pad to the samples
\* of the trace's own grid nearest to the window's ends
TrimTrace(tr, w) ==
    LET s2 == tr.start + RoundAway(w[1] - tr.start, SamplePeriod) * SamplePeriod
        n2 == Max(0, RoundAway(w[2] - s2, SamplePeriod) + 1)
        src(i) == (s2 - tr.start) \div SamplePeriod + i
    IN [id |-> tr.id, start |-> s2,
        data |-> [i \in 1..n2 |->
                    IF src(i) >= 1 /\ src(i) <= Npts(tr) THEN tr.data[src(i)]
                    ELSE "nan"]]

\* Stream.trim drops traces left without samples
NonEmptyTraces(s) == SelectSeq(s, LAMBDA tr : Npts(tr) > 0)

Trim(s, w) ==
    IF Len(s) = 0 THEN s
    ELSE LET gw == GridWindow(s[1], w)
         IN NonEmptyTraces([k \in 1..Len(s) |-> TrimTrace(s[k], gw)])

\* variant: the offsets start one sample late
TimestampsShifted(tr) == [i \in 1..Npts(tr) |-> SampleTime(tr, i + 1)]

\* lines 119-123: stream[0].times() + DATA_START
Timestamps(tr) == [i \in 1..Npts(tr) |-> SampleTime(tr, i)]

\* lines 127-128: data /= scale; data - data.mean(): the mean of an array
\* holding a nan is nan
Normalize(tr) ==
    [tr EXCEPT !.data = IF \E i \in 1..Npts(tr) : tr.data[i] = "nan"
                        THEN [i \in 1..Npts(tr) |-> "nan"]
                        ELSE tr.data]

\* ------------------------------------------------------------ the server

Segments(id, a) ==
    {[id |-> id, start |-> a + off, data |-> AllNum(n)] :
        off \in Offsets, n \in 1..MaxPts}

\* the segment of the same channel that follows tr after g missing samples
Follow(tr, g) ==
    [id |-> tr.id, start |-> EndTime(tr) + (g + 1) * SamplePeriod,
     data |-> AllNum(1)]

\* streams get_waveforms may return for a window starting at a
Streams(a) ==
    {<< >>}
    \cup {<<t>> : t \in Segments("EHZ", a)}
    \cup {<<t, Follow(t, g)>> : t \in Segments("EHZ", a), g \in Gaps}
    \cup {<<t, [id |-> "EHZ", start |-> a + off, data |-> AllNum(1)]>> :
             t \in Segments("EHE", a), off \in {0, 1}}

Responses(req) ==
    {[kind |-> "KeyError", stream |-> << >>],
     [kind |-> "Error", stream |-> << >>]}
    \cup {[kind |-> "stream", stream |-> s] : s \in Streams(req.starttime)}

\* an unchanged server answers a repeated request as before
Answers(req) ==
    IF \E e \in served : e.req = req
    THEN {e.resp : e \in {x \in served : x.req = req}}
    ELSE Responses(req)

Warning(msg) ==
    [level |-> "warning", msg |-> msg, station |-> params.station,
     starttime |-> params.starttime, endtime |-> params.endtime]

\* --------------------------------------------------------------- actions

\* the caller's query satisfies starttime <= endtime (data model of the
\* query parameters); network and location are not given
Init ==
    /\ params \in {p \in [network : {None}, station : Stations, location : {None},
                          channel : Channels,
                          starttime : 1..MaxTime, endtime : 1..MaxTime] :
                      p.starttime <= p.endtime}
    /\ config \in [window_size : WindowSizes, PAD : Pads]
    /\ avail \in AvailLists
    /\ served = {}
    /\ call = 1
    /\ first = None
    /\ pc = "avail"
    /\ args = None
    /\ stream = << >>
    /\ fetched = None
    /\ requests = << >>
    /\ trimwin = None
    /\ log = << >>
    /\ ran = {}
    /\ result = None
    /\ raised = "none"

\* lines 49-66
CheckAvailability ==
    /\ pc = "avail"
    /\ args' = Some(AvailArgs(params))
    /\ IF GateFails(avail, params.starttime, params.endtime)
       THEN /\ log' = Append(log, Warning("No availability"))
            /\ result' = Some(Sentinel)
            /\ pc' = "done"
       ELSE /\ pc' = "args"
            /\ UNCHANGED <<log, result>>
    /\ UNCHANGED <<params, config, avail, served, call, first, stream, fetched,
                   requests, trimwin, ran, raised>>

\* variant: the subtraction and addition of PAD act on the caller's objects
BuildArgsInPlace ==
    /\ pc = "args"
    /\ args' = Some(FetchArgs(params, config.PAD))
    /\ params' = [params EXCEPT !.starttime = @ - config.PAD,
                                !.endtime = @ + config.PAD]
    /\ pc' = "fetch"
    /\ UNCHANGED <<config, avail, served, call, first, stream, fetched,
                   requests, trimwin, log, ran, result, raised>>

\* lines 68-75: PAD is subtracted from and added to the dict's entries; the
\* caller's starttime and endtime stay as they are
BuildArgs ==
    /\ pc = "args"
    /\ args' = Some(FetchArgs(params, config.PAD))
    /\ pc' = "fetch"
    /\ UNCHANGED <<params, config, avail, served, call, first, stream, fetched,
                   requests, trimwin, log, ran, result, raised>>

\* what a get_waveforms call with arguments a does when nothing catches
GetWaveforms(a, onKeyError) ==
    \E r \in Answers(a) :
        /\ served' = served \cup {[req |-> a, resp |-> r]}
        /\ requests' = Append(requests, a)
        /\ args' = Some(a)
        /\ IF r.kind = "stream"
           THEN /\ stream' = r.stream
                /\ fetched' = Some(r.stream)
                /\ pc' = "count"
                /\ UNCHANGED raised
           ELSE IF r.kind = "KeyError" /\ onKeyError = "retry"
           THEN /\ pc' = "retry"
                /\ UNCHANGED <<stream, fetched, raised>>
           ELSE /\ raised' = r.kind
                /\ pc' = "done"
                /\ UNCHANGED <<stream, fetched>>

\* lines 77-82
Fetch ==
    /\ pc = "fetch"
    /\ GetWaveforms(args[1], "retry")
    /\ UNCHANGED <<params, config, avail, call, first, trimwin, log, ran, result>>

\* lines 82-89
Retry ==
    /\ pc = "retry"
    /\ GetWaveforms([args[1] EXCEPT !.channel = RetryChannel(params)], "raise")
    /\ UNCHANGED <<params, config, avail, call, first, trimwin, log, ran, result>>

\* lines 91-93
CheckCount ==
    /\ pc = "count"
    /\ IF IsEmpty(stream)
       THEN /\ log' = Append(log, Warning("No data returned"))
            /\ result' = Some(Sentinel)
            /\ pc' = "done"
       ELSE /\ pc' = "merge"
            /\ UNCHANGED <<log, result>>
    /\ UNCHANGED <<params, config, avail, served, call, first, args, stream,
                   fetched, requests, trimwin, ran, raised>>

\* lines 97-105
MergeTraces ==
    /\ pc = "merge"
    /\ stream' = Merge(stream)
    /\ ran' = ran \cup {"astype", "merge"}
    /\ IF config.window_size # None /\ Len(Merge(stream)) = 0
       THEN /\ raised' = "IndexError"
            /\ pc' = "done"
            /\ UNCHANGED result
       ELSE IF Len(Merge(stream)) > 0
               /\ TooShort(Npts(Merge(stream)[1]), config.window_size)
       THEN /\ result' = Some(Sentinel)
            /\ pc' = "done"
            /\ UNCHANGED raised
       ELSE /\ pc' = "clean"
            /\ UNCHANGED <<result, raised>>
    /\ UNCHANGED <<params, config, avail, served, call, first, args, fetched,
                   requests, trimwin, log>>

\* lines 108-115
Clean ==
    /\ pc = "clean"
    /\ trimwin' = Some(TrimBounds(params, config.PAD))
    /\ stream' = Trim([k \in 1..Len(stream) |-> FilterTrace(stream[k])],
                      TrimBounds(params, config.PAD))
    /\ ran' = ran \cup {"detrend", "filter", "trim"}
    /\ pc' = "finish"
    /\ UNCHANGED <<params, config, avail, served, call, first, args, fetched,
                   requests, log, result, raised>>

\* lines 119-130
Finish ==
    /\ pc = "finish"
    /\ pc' = "done"
    /\ IF Len(stream) = 0
       THEN /\ raised' = "IndexError"
            /\ UNCHANGED <<stream, ran, result>>
       ELSE IF params.station = None \/ params.station[1] \notin StationTable
       THEN /\ raised' = "KeyError"
            /\ ran' = ran \cup {"times"}
            /\ UNCHANGED <<stream, result>>
       ELSE /\ stream' = [k \in 1..Len(stream) |-> Normalize(stream[k])]
            /\ ran' = ran \cup {"times", "normalize"}
            /\ result' = Some([stream |-> Some([k \in 1..Len(stream) |-> Normalize(stream[k])]),
                               times |-> Some(Timestamps(stream[1]))])
            /\ UNCHANGED raised
    /\ UNCHANGED <<params, config, avail, served, call, first, args, fetched,
                   requests, trimwin, log>>

\* what the caller sees of a finished call
Outcome == [result |-> result, raised |-> raised, log |-> log]

\* the caller calls load() again with the same arguments
CallAgain ==
    /\ pc = "done"
    /\ call = 1
    /\ first' = Some(Outcome)
    /\ call' = 2
    /\ pc' = "avail"
    /\ args' = None
    /\ stream' = << >>
    /\ fetched' = None
    /\ requests' = << >>
    /\ trimwin' = None
    /\ log' = << >>
    /\ ran' = {}
    /\ result' = None
    /\ raised' = "none"
    /\ UNCHANGED <<params, config, avail, served>>

Next ==
    \/ CheckAvailability
    \/ BuildArgs
    \/ Fetch
    \/ Retry
    \/ CheckCount
    \/ MergeTraces
    \/ Clean
    \/ Finish
    \/ CallAgain

Spec == Init /\ [][Next]_vars

\* ---------------------------------------------------------------- claims

Done == pc = "done"
Returned == Done /\ raised = "none" /\ result # None
IsSentinel == Returned /\ result[1].stream = None /\ result[1].times = None
Success == Returned /\ result[1].stream # None /\ result[1].times # None

ReqStart == params.starttime - config.PAD
ReqEnd == params.endtime + config.PAD

\* the availability gate of this call has been passed
GatePassed == pc \in {"args", "fetch", "retry", "count", "merge", "clean", "finish"}
              \/ (Done /\ Len(requests) > 0)
\* the availability gate of this call has stopped the call
GateStopped == Done /\ requests = << >> /\ IsSentinel
               /\ Len(log) = 1 /\ log[1].level = "warning"

\* C1: with no availability record, or the first record ending before
\* starttime or starting after endtime, load returns (None, None), logs a
\* warning and raises nothing; with avail_to = starttime or
\* avail_from = endtime the gate passes and a fetch is made.
C1_AvailabilityGate ==
    pc # "avail" =>
        /\ (\/ Len(avail) = 0
            \/ (Len(avail) > 0 /\ avail[1][6] < params.starttime)
            \/ (Len(avail) > 0 /\ avail[1][5] > params.endtime))
           => GateStopped
        /\ (Len(avail) > 0 /\ (avail[1][6] = params.starttime
                               \/ avail[1][5] = params.endtime))
           => GatePassed

C1_Witness ==
    /\ Done /\ Len(avail) > 0 /\ avail[1][5] > params.endtime
    /\ IsSentinel /\ Len(log) = 1

\* C2: when the fetch (first attempt or retry) yields a stream without
\* traces, load returns (None, None) and no merge, filter, trim or
\* normalisation step is run.
C2_EmptyFetch ==
    fetched = Some(<< >>) =>
        /\ ran = {}
        /\ pc \in {"count", "done"}
        /\ Done => IsSentinel

C2_Witness ==
    Done /\ fetched = Some(<< >>) /\ Len(requests) = 2 /\ IsSentinel

\* samples of the primary trace after the merge of what was fetched
MergedCount == Npts(Merge(fetched[1])[1])
FetchedSome == fetched # None /\ Len(fetched[1]) > 0

\* C3: with a minimum window size configured and a merged primary trace
\* shorter than it, load returns (None, None) although the gate passed and
\* traces were fetched; with no minimum window size configured, a call that
\* fetched traces never returns (None, None).
C3_WindowSize ==
    (Done /\ FetchedSome) =>
        /\ (config.window_size # None /\ MergedCount < config.window_size[1])
           => IsSentinel
        /\ config.window_size = None => ~IsSentinel

C3_Witness ==
    /\ Done /\ FetchedSome /\ config.window_size # None
    /\ MergedCount < config.window_size[1] /\ IsSentinel

\* one of the three recognised failure conditions holds in this call
SoftFailure ==
    \/ Len(avail) = 0
    \/ avail[1][6] < params.starttime
    \/ avail[1][5] > params.endtime
    \/ fetched = Some(<< >>)
    \/ (FetchedSome /\ config.window_size # None
        /\ MergedCount < config.window_size[1])

\* C4: a call that ends without raising returns (stream, times) with both
\* present or (None, None); never exactly one absent; the three failure
\* conditions end in (None, None), not in an exception.
C4_ResultShape ==
    Done =>
        /\ raised = "none" => (IsSentinel \/ Success)
        /\ SoftFailure => IsSentinel

C4_Witness ==
    Success /\ Len(result[1].stream[1]) > 0 /\ Len(result[1].times[1]) > 0

\* C5: every soft-failure return is preceded by a warning in the same call,
\* a (stream, times) return logs nothing, and the zero-trace warning names
\* the station and the requested time range.
C5_WarningOnSoftFailure ==
    /\ IsSentinel =>
          /\ Len(log) >= 1
          /\ \A i \in 1..Len(log) : log[i].level = "warning"
    /\ (IsSentinel /\ fetched = Some(<< >>)) =>
          \E i \in 1..Len(log) :
              /\ log[i].station = params.station
              /\ log[i].starttime = params.starttime
              /\ log[i].endtime = params.endtime
    /\ Success => log = << >>

\* the answer the server gave to request r
AnswerKind(r) == (CHOOSE e \in served : e.req = r).resp.kind

\* C6: at most two fetch requests per call; with a channel given the first
\* uses the channel with its last character replaced by "*"; a second
\* request is made only after a KeyError of the first and uses the exact
\* channel; an error of the second, or another error of the first, reaches
\* the caller.
C6_FetchRetry ==
    /\ Len(requests) <= 2
    /\ (Len(requests) >= 1 /\ params.channel # None /\ Len(params.channel[1]) > 0)
       => requests[1].channel =
            Some(SubSeq(params.channel[1], 1, Len(params.channel[1]) - 1) \o <<"*">>)
    /\ Len(requests) = 2 =>
          /\ AnswerKind(requests[1]) = "KeyError"
          /\ requests[2].channel = params.channel
          /\ requests[2].starttime = requests[1].starttime
          /\ requests[2].endtime = requests[1].endtime
    /\ (pc \notin {"fetch", "retry"} /\ Len(requests) >= 1
        /\ AnswerKind(requests[Len(requests)]) # "stream")
       => (Done /\ raised = AnswerKind(requests[Len(requests)]))

C6_Witness ==
    /\ Done /\ Len(requests) = 2 /\ params.channel # None
    /\ requests[1].channel # requests[2].channel
    /\ raised = "KeyError"

Abs(x) == IF x >= 0 THEN x ELSE 0 - x

\* the request window and the trim window are both [starttime - pad,
\* endtime + pad] of the caller's values
SameWindow ==
    /\ trimwin = Some(<<ReqStart, ReqEnd>>)
    /\ \A i \in 1..Len(requests) :
          requests[i].starttime = ReqStart /\ requests[i].endtime = ReqEnd

\* C7 as stated: on success the request window and the trim window are
\* [starttime - pad, endtime + pad] and every returned trace spans exactly
\* that interval.
C7_ExactSpan ==
    Success =>
        /\ SameWindow
        /\ \A k \in 1..Len(result[1].stream[1]) :
              /\ result[1].stream[1][k].start = ReqStart
              /\ EndTime(result[1].stream[1][k]) = ReqEnd

\* C7 amended: on success the request window and the trim window are
\* [starttime - pad, endtime + pad]; every returned trace starts and ends at
\* samples of its own grid at most one sample period from the window's ends,
\* the primary trace at most half a period.
C7_NearestSampleSpan ==
    Success =>
        /\ SameWindow
        /\ \A k \in 1..Len(result[1].stream[1]) :
              /\ Abs(result[1].stream[1][k].start - ReqStart) <= SamplePeriod
              /\ Abs(EndTime(result[1].stream[1][k]) - ReqEnd) <= SamplePeriod
        /\ 2 * Abs(result[1].stream[1][1].start - ReqStart) <= SamplePeriod
        /\ 2 * Abs(EndTime(result[1].stream[1][1]) - ReqEnd) <= SamplePeriod

C7_Witness ==
    /\ Success /\ config.PAD > 0
    /\ result[1].stream[1][1].start # ReqStart
    /\ \E i \in 1..Npts(result[1].stream[1][1]) :
          result[1].stream[1][1].data[i] = "nan"

\* C8 as stated: on success the timestamp series is as long as the primary
\* trace and every timestamp lies in [starttime - pad, endtime + pad].
C8_TimesInWindow ==
    Success =>
        /\ Len(result[1].times[1]) = Npts(result[1].stream[1][1])
        /\ \A i \in 1..Len(result[1].times[1]) :
              ReqStart <= result[1].times[1][i] /\ result[1].times[1][i] <= ReqEnd

\* C8 amended: on success the timestamp series is as long as the primary
\* trace, its entries are the trace's sample times, and every timestamp lies
\* within half a sample period of [starttime - pad, endtime + pad].
C8_TimesNearWindow ==
    Success =>
        /\ Len(result[1].times[1]) = Npts(result[1].stream[1][1])
        /\ \A i \in 1..Len(result[1].times[1]) :
              /\ result[1].times[1][i] =
                   result[1].stream[1][1].start + (i - 1) * SamplePeriod
              /\ 2 * (ReqStart - result[1].times[1][i]) <= SamplePeriod
              /\ 2 * (result[1].times[1][i] - ReqEnd) <= SamplePeriod

C8_Witness ==
    /\ Success /\ Len(result[1].times[1]) >= 2
    /\ result[1].times[1][1] < ReqStart

\* C9: the second of two calls with the same arguments against an unchanged
\* server, configuration and station table ends as the first did.
C9_SameOutcome ==
    (call = 2 /\ Done) =>
        first = Some([result |-> result, raised |-> raised, log |-> log])

C9_Witness ==
    call = 2 /\ Success /\ first # None /\ first[1].result = result

\* time t of channel id holds fetched (merged) data
Covered(id, t) ==
    \E k \in 1..Len(Merge(fetched[1])) :
        LET m == Merge(fetched[1])[k]
        IN /\ m.id = id
           /\ m.start <= t /\ t <= EndTime(m)
           /\ (t - m.start) % SamplePeriod = 0

\* C10: in a returned stream a sample is nan only where the trim/pad step
\* filled a position without fetched data; positions covered by fetched
\* data hold numbers.
C10_NanOnlyAtPadding ==
    Success =>
        \A k \in 1..Len(result[1].stream[1]) :
            LET tr == result[1].stream[1][k]
            IN \A i \in 1..Npts(tr) :
                  tr.data[i] = "nan" <=> ~Covered(tr.id, SampleTime(tr, i))

====
